---- MODULE Spec2Model ----
(***************************************************************************)
(* SkyNotes (src/app/page.tsx): the note store of the Page component, its  *)
(* load and persist effects, the derived list view and the five handlers.  *)
(*                                                                         *)
(* Strings are sequences of one-character strings.  Ids (UUID strings) are *)
(* the naturals 1..MaxIds, 0 is null.  A timestamp is the zero-padded      *)
(* fixed-width decimal text that toISOString produces, kept to two digits. *)
(***************************************************************************)
EXTENDS Integers, Sequences, FiniteSets, TLC

\* ---------------------------------------------------------------- bounds
MaxIds == 3
MaxTime == 1
MaxNotes == 2

Ids == 1..MaxIds
Times == 0..MaxTime
NULL == 0

\* ------------------------------------------------------------- constants
STORAGE_KEY == "skynotes"

palettes ==
  << "from-sky-400/80 via-sky-500/50 to-blue-900/20",
     "from-purple-400/90 via-indigo-500/50 to-slate-900/20",
     "from-rose-400/80 via-pink-500/40 to-fuchsia-900/20",
     "from-emerald-400/80 via-teal-500/40 to-slate-900/20" >>

Untitled == <<"U", "n", "t", "i", "t", "l", "e", "d">>
CopySuffix == <<" ", "(", "C", "o", "p", "y", ")">>

\* -------------------------------------------------------- string helpers
\* String.prototype.toLowerCase, one character
LowerChar(c) ==
  CASE c = "A" -> "a"
    [] c = "B" -> "b"
    [] c = "C" -> "c"
    [] c = "U" -> "u"
    [] OTHER -> c

toLowerCase(s) == [i \in 1..Len(s) |-> LowerChar(s[i])]

IsWhitespace(c) == c = " "

RECURSIVE TrimStart(_)
TrimStart(s) ==
  IF s # <<>> /\ IsWhitespace(Head(s)) THEN TrimStart(Tail(s)) ELSE s

RECURSIVE TrimEnd(_)
TrimEnd(s) ==
  IF s # <<>> /\ IsWhitespace(s[Len(s)]) THEN TrimEnd(SubSeq(s, 1, Len(s) - 1)) ELSE s

\* String.prototype.trim
trim(s) == TrimEnd(TrimStart(s))

\* String.prototype.includes
includes(s, t) ==
  \E i \in 0..(Len(s) - Len(t)) : SubSeq(s, i + 1, i + Len(t)) = t

\* String.prototype.localeCompare on timestamp texts: the first differing
\* character decides, a proper prefix sorts first.  Result in {-1, 0, 1}.
RECURSIVE localeCompare(_, _)
localeCompare(a, b) ==
  IF a = <<>> /\ b = <<>> THEN 0
  ELSE IF a = <<>> THEN -1
  ELSE IF b = <<>> THEN 1
  ELSE IF Head(a) < Head(b) THEN -1
  ELSE IF Head(a) > Head(b) THEN 1
  ELSE localeCompare(Tail(a), Tail(b))

\* Date.prototype.toISOString: zero-padded, most significant digit first
toISOString(t) == << (t \div 10) % 10, t % 10 >>

\* Number(boolean)
Number(b) == IF b THEN 1 ELSE 0

\* mutant: the index is rounded up instead of down
paletteAtCeil(i) == IF i + 2 \in 1..Len(palettes) THEN palettes[i + 2] ELSE "undefined"

\* palettes[i] for a zero-based index i; out of range reads undefined
paletteAt(i) == IF i + 1 \in 1..Len(palettes) THEN palettes[i + 1] ELSE "undefined"

\* ------------------------------------------------------------------ notes
\* interface Note
Note(id, title, content, createdAt, updatedAt, pinned, color) ==
  [id |-> id, title |-> title, content |-> content, createdAt |-> createdAt,
   updatedAt |-> updatedAt, pinned |-> pinned, color |-> color]

NoteIds(ns) == {ns[i].id : i \in 1..Len(ns)}

\* Array.prototype.find by id, as an index (0 when there is none)
FindIndex(ns, id) ==
  IF \E i \in 1..Len(ns) : ns[i].id = id
  THEN CHOOSE i \in 1..Len(ns) : ns[i].id = id /\ \A j \in 1..(i - 1) : ns[j].id # id
  ELSE 0

\* ------------------------------------------------------------------- JSON
\* A JSON value is tagged; an object is its sequence of (key, value) pairs in
\* insertion order, which is the order JSON.stringify writes them in.
JNone == [tag |-> "none", items |-> <<>>]
JArray(items) == [tag |-> "array", items |-> items]
JNullItem == [tag |-> "null", props |-> <<>>]

EncodeNote(n) ==
  [tag |-> "object",
   props |-> << <<"id", n.id>>, <<"title", n.title>>, <<"content", n.content>>,
                <<"createdAt", n.createdAt>>, <<"updatedAt", n.updatedAt>>,
                <<"pinned", n.pinned>>, <<"color", n.color>> >>]

Prop(obj, key) ==
  obj.props[CHOOSE i \in 1..Len(obj.props) : obj.props[i][1] = key][2]

\* mutant: updatedAt is read from the createdAt key
DecodeNoteSwapped(obj) ==
  [id |-> Prop(obj, "id"), title |-> Prop(obj, "title"), content |-> Prop(obj, "content"),
   createdAt |-> Prop(obj, "createdAt"), updatedAt |-> Prop(obj, "createdAt"),
   pinned |-> Prop(obj, "pinned"), color |-> Prop(obj, "color")]

DecodeNote(obj) ==
  [id |-> Prop(obj, "id"), title |-> Prop(obj, "title"), content |-> Prop(obj, "content"),
   createdAt |-> Prop(obj, "createdAt"), updatedAt |-> Prop(obj, "updatedAt"),
   pinned |-> Prop(obj, "pinned"), color |-> Prop(obj, "color")]

\* a JSON value that is no array: an object that wraps one note
JNotArray ==
  [tag |-> "object",
   items |-> <<EncodeNote(Note(1, <<"a">>, <<>>, toISOString(0), toISOString(0),
                               FALSE, palettes[1]))>>]

\* The value held under STORAGE_KEY: absent (getItem gives null), the empty
\* string, text that is not JSON, or the text of a JSON value.
Absent == [kind |-> "absent", val |-> JNone]
EmptyText == [kind |-> "empty", val |-> JNone]
Garbage == [kind |-> "garbage", val |-> JNone]
JsonText(v) == [kind |-> "json", val |-> v]

\* JSON.stringify(notes)
JSONstringify(ns) == JsonText(JArray([i \in 1..Len(ns) |-> EncodeNote(ns[i])]))

\* JSON.parse(raw): ok = FALSE stands for the SyntaxError it throws
JSONparse(raw) ==
  IF raw.kind = "json" THEN [ok |-> TRUE, val |-> raw.val]
  ELSE [ok |-> FALSE, val |-> JNone]

isArray(v) == v.tag = "array"

\* mutant: the Array.isArray test is missing
getInitialNotesNoArrayCheck(raw) ==
  IF raw.kind \in {"absent", "empty"} THEN [items |-> <<>>, warned |-> FALSE]
  ELSE LET parsed == JSONparse(raw) IN
       IF ~parsed.ok THEN [items |-> <<>>, warned |-> TRUE]
       ELSE [items |-> parsed.val.items, warned |-> FALSE]

\* getInitialNotes(): the array handed to setNotes, as JSON items; warned
\* tells whether the catch block ran (console.warn).
getInitialNotes(raw) ==
  IF raw.kind \in {"absent", "empty"} THEN [items |-> <<>>, warned |-> FALSE]
  ELSE LET parsed == JSONparse(raw) IN
       IF ~parsed.ok THEN [items |-> <<>>, warned |-> TRUE]
       ELSE IF isArray(parsed.val) THEN [items |-> parsed.val.items, warned |-> FALSE]
       ELSE [items |-> <<>>, warned |-> FALSE]

\* ------------------------------------------------------------ derived view
\* mutant: the comparator forgets the pin
compareNotesByTimeOnly(a, b) == localeCompare(b.updatedAt, a.updatedAt)

\* (a, b) => Number(b.pinned) - Number(a.pinned) || b.updatedAt.localeCompare(a.updatedAt)
compareNotes(a, b) ==
  LET p == Number(b.pinned) - Number(a.pinned) IN
  IF p # 0 THEN p ELSE localeCompare(b.updatedAt, a.updatedAt)

\* Array.prototype.sort is stable: x goes before the first element that must
\* follow it, after every element it ties with.
RECURSIVE InsertSorted(_, _)
InsertSorted(sorted, x) ==
  IF sorted = <<>> THEN <<x>>
  ELSE IF compareNotes(Head(sorted), x) > 0 THEN <<x>> \o sorted
  ELSE <<Head(sorted)>> \o InsertSorted(Tail(sorted), x)

RECURSIVE sortNotes(_)
sortNotes(ns) ==
  IF ns = <<>> THEN <<>>
  ELSE InsertSorted(sortNotes(SubSeq(ns, 1, Len(ns) - 1)), ns[Len(ns)])

\* mutant: only the title is searched
matchesTermTitleOnly(note, term) == includes(toLowerCase(note.title), term)

matchesTerm(note, term) ==
  includes(toLowerCase(note.title), term) \/ includes(toLowerCase(note.content), term)

\* the filteredNotes memo
filteredNotes(ns, searchTerm) ==
  IF trim(searchTerm) = <<>> THEN sortNotes(ns)
  ELSE LET term == toLowerCase(searchTerm)
           Test(note) == matchesTerm(note, term)
       IN sortNotes(SelectSeq(ns, Test))

\* the activeNote memo, as an index into notes (0 when null)
activeNote(ns, activeId) == FindIndex(ns, activeId)

\* ------------------------------------------------------------------ inputs
\* Math.random() in quarters: k stands for k/4
RandomSamples == {0, 3}

\* what the user types into the title, the body and the search box
TitleInputs == {<<"A">>}
ContentInputs == {<<"b">>}
ColorInputs == {1}
SearchTerms == {<<>>, <<"a">>}

\* notes an earlier session left in storage (their ids were issued then; the
\* wall clock of that session need not agree with this one's)
StoredIds == {1, 2}
StoredNotes ==
  {Note(id, <<"a">>, <<>>, toISOString(0), toISOString(u), p, palettes[1]) :
     id \in StoredIds, u \in Times, p \in BOOLEAN}
StoredStores ==
  {<<>>} \cup {<<n>> : n \in StoredNotes}
         \cup {<<n, m>> : n \in {x \in StoredNotes : x.id = 2},
                          m \in {x \in StoredNotes : x.id = 1}}

StartStorage ==
  {Absent, EmptyText, Garbage, JsonText(JNotArray), JsonText(JArray(<<JNullItem>>))}
    \cup {JSONstringify(ns) : ns \in StoredStores}

StoredItemIds(raw) ==
  {Prop(raw.val.items[i], "id") :
     i \in {j \in 1..Len(raw.val.items) : raw.val.items[j].tag = "object"}}

\* the ids createId handed out in earlier sessions: ids are numbered in the
\* order they are issued, so every id up to the largest stored one
IssuedBefore(raw) ==
  {id \in Ids : \E stored \in StoredItemIds(raw) : id <= stored}

\* ------------------------------------------------------------------- state
VARIABLES
  pc,          \* "mount": first render committed, effects not run yet;
               \* "mountPersist": load effect done, first persist effect next;
               \* "run": mounted; "crashed": an effect threw
  notes,       \* useState<Note[]>
  searchTerm,  \* useState("")
  activeId,    \* useState<string | null>
  storage,     \* window.localStorage[STORAGE_KEY]
  pending,     \* notes changed identity: the persist effect has to run
  now,         \* the wall clock that new Date() reads
  issued,      \* ids createId has handed out so far
  warned,      \* console.warn was called
  last         \* the last step taken and the state it started from

vars == <<pc, notes, searchTerm, activeId, storage, pending, now, issued, warned, last>>

Step(op, id, payload) ==
  [op |-> op, id |-> id, payload |-> payload, notes |-> notes, activeId |-> activeId]

Init ==
  /\ pc = "mount"
  /\ notes = <<>>
  /\ searchTerm = <<>>
  /\ activeId = NULL
  /\ storage \in StartStorage
  /\ pending = FALSE
  /\ now = 0
  /\ issued = IssuedBefore(storage)
  /\ warned = FALSE
  /\ last = [op |-> "init", id |-> NULL, payload |-> <<>>, notes |-> <<>>,
             activeId |-> NULL]

\* --------------------------------------------------------------- effects
\* useEffect(() => {...}, []): the load effect of the first commit
LoadEffect ==
  /\ pc = "mount"
  /\ LET initial == getInitialNotes(storage) IN
     /\ warned' = initial.warned
     /\ IF Len(initial.items) > 0 /\ initial.items[1].tag = "null"
        THEN \* initial[0].id throws a TypeError inside the effect
             /\ pc' = "crashed"
             /\ UNCHANGED <<notes, activeId, pending>>
        ELSE /\ pc' = "mountPersist"
             /\ notes' = [i \in 1..Len(initial.items) |-> DecodeNote(initial.items[i])]
             /\ activeId' = IF Len(initial.items) > 0
                            THEN Prop(initial.items[1], "id") ELSE activeId
             /\ pending' = TRUE
  /\ last' = Step("load", NULL, <<>>)
  /\ UNCHANGED <<searchTerm, storage, now, issued>>

\* mutant: the sorted list is written instead of the store
persistValueSorted(ns) == JSONstringify(sortNotes(ns))

\* what the persist effect writes for the notes of the render it belongs to
persistValue(ns) == JSONstringify(ns)

\* the persist effect of the first commit: its closure holds the notes of the
\* first render, useState's initial []
MountPersist ==
  /\ pc = "mountPersist"
  /\ storage' = persistValue(<<>>)
  /\ pc' = "run"
  /\ last' = Step("mountPersist", NULL, <<>>)
  /\ UNCHANGED <<notes, searchTerm, activeId, pending, now, issued, warned>>

\* useEffect(() => {...}, [notes]) after a render with a new notes array
PersistEffect ==
  /\ pc = "run"
  /\ pending
  /\ storage' = persistValue(notes)
  /\ pending' = FALSE
  /\ last' = Step("persist", NULL, <<>>)
  /\ UNCHANGED <<pc, notes, searchTerm, activeId, now, issued, warned>>

\* an event handler runs on a mounted component whose effects have been flushed
Idle == pc = "run" /\ ~pending

\* --------------------------------------------------------------- handlers
\* mutant: the id is the clock reading alone
createIdByClock == {1 + now}

\* createId(): a value no earlier call returned.  Ids are only ever compared
\* for equality, so the least unissued one stands for any of them; an id's
\* number is then its place in the order of issue.
createId == {id \in Ids \ issued : \A other \in Ids \ issued : id <= other}

\* mutant: the new note is put at the end of the array
append(note, prev) == prev \o <<note>>

\* [note, ...prev]
prepend(note, prev) == <<note>> \o prev

createNote(cap) ==
  /\ Idle
  /\ Len(notes) < cap
  /\ \E id \in createId, k \in RandomSamples :
       LET stamp == toISOString(now)
           newNote == Note(id, Untitled, <<>>, stamp, stamp, FALSE,
                           paletteAt((k * Len(palettes)) \div 4))
       IN /\ notes' = prepend(newNote, notes)
          /\ activeId' = newNote.id
          /\ issued' = issued \cup {id}
          /\ last' = Step("create", id, <<>>)
  /\ pending' = TRUE
  /\ UNCHANGED <<pc, searchTerm, storage, now, warned>>

\* mutant: the spread also resets createdAt
mergeNoteResetsCreatedAt(note, payload, stamp) ==
  [[k \in DOMAIN note |-> IF k \in DOMAIN payload THEN payload[k] ELSE note[k]]
     EXCEPT !.updatedAt = stamp, !.createdAt = stamp]

\* {...note, ...payload, updatedAt: new Date().toISOString()}
mergeNote(note, payload, stamp) ==
  [[k \in DOMAIN note |-> IF k \in DOMAIN payload THEN payload[k] ELSE note[k]]
     EXCEPT !.updatedAt = stamp]

\* mutant: the map rewrites every note
isTargetAny(note, id) == TRUE

\* note.id === id
isTarget(note, id) == note.id = id

updateNote(id, payload) ==
  /\ Idle
  /\ notes' = [i \in 1..Len(notes) |->
                 IF isTarget(notes[i], id) THEN mergeNote(notes[i], payload, toISOString(now))
                 ELSE notes[i]]
  /\ pending' = TRUE
  /\ last' = Step("update", id, payload)
  /\ UNCHANGED <<pc, searchTerm, activeId, storage, now, issued, warned>>

\* mutant: the last remaining note is selected
fallbackIdLast(filtered) ==
  IF Len(filtered) > 0 THEN filtered[Len(filtered)].id ELSE NULL

\* mutant: the first remaining note of the sorted list is selected
fallbackIdDisplayed(filtered) ==
  IF Len(filtered) > 0 THEN sortNotes(filtered)[1].id ELSE NULL

\* filtered.length ? filtered[0].id : null
fallbackId(filtered) ==
  IF Len(filtered) > 0 THEN filtered[1].id ELSE NULL

\* mutant: the selection is left alone
selectionAfterDeleteKept(active, id, filtered) == active

\* if (activeId === id) setActiveId(...)
selectionAfterDelete(active, id, filtered) ==
  IF active = id THEN fallbackId(filtered) ELSE active

deleteNote(id) ==
  /\ Idle
  /\ LET Keep(note) == note.id # id
         filtered == SelectSeq(notes, Keep)
     IN /\ notes' = filtered
        /\ activeId' = selectionAfterDelete(activeId, id, filtered)
  /\ pending' = TRUE
  /\ last' = Step("delete", id, <<>>)
  /\ UNCHANGED <<pc, searchTerm, storage, now, issued, warned>>

\* mutant: the copy keeps the timestamps of the original
makeCopyOldStamps(target, newId, stamp) ==
  [target EXCEPT !.id = newId, !.title = target.title \o CopySuffix]

\* {...target, id: createId(), title: `${target.title} (Copy)`, createdAt: now, updatedAt: now}
makeCopy(target, newId, stamp) ==
  [target EXCEPT !.id = newId,
                 !.title = target.title \o CopySuffix,
                 !.createdAt = stamp,
                 !.updatedAt = stamp]

duplicateNote(id, cap) ==
  /\ Idle
  /\ LET t == FindIndex(notes, id) IN
     IF t = 0
     THEN /\ last' = Step("duplicate", id, <<>>)
          /\ UNCHANGED <<notes, activeId, issued, pending>>
     ELSE /\ Len(notes) < cap
          /\ \E newId \in createId :
               LET copy == makeCopy(notes[t], newId, toISOString(now))
               IN /\ notes' = prepend(copy, notes)
                  /\ activeId' = copy.id
                  /\ issued' = issued \cup {newId}
                  /\ pending' = TRUE
                  /\ last' = Step("duplicate", id, <<>>)
  /\ UNCHANGED <<pc, searchTerm, storage, now, warned>>

\* mutant: selecting also makes the persist effect run
selectNoteSchedulesWrite(id) ==
  /\ Idle
  /\ id \in NoteIds(filteredNotes(notes, searchTerm))
  /\ activeId' = id
  /\ pending' = TRUE
  /\ last' = Step("select", id, <<>>)
  /\ UNCHANGED <<pc, notes, searchTerm, storage, now, issued, warned>>

\* onClick of a row of the rendered list: setActiveId(note.id)
selectNote(id) ==
  /\ Idle
  /\ id \in NoteIds(filteredNotes(notes, searchTerm))
  /\ activeId' = id
  /\ last' = Step("select", id, <<>>)
  /\ UNCHANGED <<pc, notes, searchTerm, storage, pending, now, issued, warned>>

\* onChange of the search box
setSearchTerm(term) ==
  /\ Idle
  /\ term # searchTerm
  /\ searchTerm' = term
  /\ last' = Step("search", NULL, <<>>)
  /\ UNCHANGED <<pc, notes, activeId, storage, pending, now, issued, warned>>

\* the wall clock moves on between two events
Tick ==
  /\ Idle
  /\ now < MaxTime
  /\ now' = now + 1
  /\ last' = Step("tick", NULL, <<>>)
  /\ UNCHANGED <<pc, notes, searchTerm, activeId, storage, pending, issued, warned>>

\* ------------------------------------------------------- the user's moves
Create == createNote(MaxNotes)
UpdateTitle == \E id \in Ids, t \in TitleInputs : updateNote(id, [title |-> t])
UpdateContent == \E id \in Ids, c \in ContentInputs : updateNote(id, [content |-> c])
UpdatePinned == \E id \in Ids, b \in BOOLEAN : updateNote(id, [pinned |-> b])
UpdateColor == \E id \in Ids, i \in ColorInputs : updateNote(id, [color |-> paletteAt(i)])
Delete == \E id \in Ids : deleteNote(id)
Duplicate == \E id \in Ids : duplicateNote(id, MaxNotes)
Select == \E id \in Ids : selectNote(id)
Search == \E term \in SearchTerms : setSearchTerm(term)

\* The session: load, then any of create, rename, pin, delete, duplicate,
\* select, with the persist effect after every change of notes.
Next ==
  \/ LoadEffect
  \/ MountPersist
  \/ PersistEffect
  \/ Create
  \/ UpdateTitle
  \/ UpdatePinned
  \/ Delete
  \/ Duplicate
  \/ Select
  \/ Tick

Spec == Init /\ [][Next]_vars

\* The same session on a store of up to MaxNotes + 1 notes, with the search
\* box in use and pinning as the only edit.
CreateMore == createNote(MaxNotes + 1)

NextOrder ==
  \/ LoadEffect
  \/ MountPersist
  \/ PersistEffect
  \/ CreateMore
  \/ UpdatePinned
  \/ Delete
  \/ Select
  \/ Search
  \/ Tick

SpecOrder == Init /\ [][NextOrder]_vars

\* The session with every kind of edit and no delete or duplicate.
NextEdit ==
  \/ LoadEffect
  \/ MountPersist
  \/ PersistEffect
  \/ Create
  \/ UpdateTitle
  \/ UpdateContent
  \/ UpdatePinned
  \/ UpdateColor
  \/ Select
  \/ Tick

SpecEdit == Init /\ [][NextEdit]_vars

\* The session on up to MaxNotes + 1 notes with both ways to add a note.
DuplicateMore == \E id \in Ids : duplicateNote(id, MaxNotes + 1)

NextInsert ==
  \/ LoadEffect
  \/ MountPersist
  \/ PersistEffect
  \/ CreateMore
  \/ DuplicateMore
  \/ UpdatePinned
  \/ Delete
  \/ Select

SpecInsert == Init /\ [][NextInsert]_vars

\* ------------------------------------------------- the view on its own
\* Stores the user can have typed, for the list view: three notes whose
\* texts differ in case, in whitespace and in where the match is.
ViewTexts ==
  { <<<<"A">>, <<>>>>, <<<<>>, <<"b", "A">>>>, <<Untitled, <<>>>>, <<<<"a", " ">>, <<"B">>>> }
ViewStamps == {toISOString(0), toISOString(9), toISOString(10)}
ViewNotes(id) ==
  {Note(id, x[1], x[2], toISOString(0), u, p, palettes[1]) :
     x \in ViewTexts, u \in ViewStamps, p \in BOOLEAN}
ViewStores ==
  {<<a, b, c>> : a \in ViewNotes(3), b \in ViewNotes(2), c \in ViewNotes(1)}
ViewTerms ==
  {<<>>, <<" ">>, <<"a">>, <<"A">>, <<"b">>, <<"a", " ">>, <<" ", "a">>, <<"u", "N">>}

InitView ==
  /\ pc = "run"
  /\ notes \in ViewStores
  /\ searchTerm = <<>>
  /\ activeId = notes[1].id
  /\ storage = JSONstringify(notes)
  /\ pending = FALSE
  /\ now = 0
  /\ issued = NoteIds(notes)
  /\ warned = FALSE
  /\ last = [op |-> "init", id |-> NULL, payload |-> <<>>, notes |-> <<>>,
             activeId |-> NULL]

SearchView == \E term \in ViewTerms : setSearchTerm(term)

NextView == SearchView

SpecView == InitView /\ [][NextView]_vars

\* ================================================================= claims
Found(ns, id) == id \in NoteIds(ns)
Remaining(ns, id) == LET Keep(note) == note.id # id IN SelectSeq(ns, Keep)
IndexIn(ns, id) == FindIndex(ns, id)

\* C1: no two notes of the store share an id, whatever was loaded and
\* whichever of create, duplicate, update, delete and select has run; so a
\* store built by N creates has N entries with N distinct ids.
C1_UniqueIds ==
  /\ \A i, j \in 1..Len(notes) : i # j => notes[i].id # notes[j].id
  /\ Cardinality(NoteIds(notes)) = Len(notes)
  /\ last.op = "create" => Len(notes) = Len(last.notes) + 1

C1_Witness ==
  /\ last.op \in {"create", "duplicate"}
  /\ Len(last.notes) >= 1
  /\ Len(notes) = Len(last.notes) + 1

\* C2: delete(id) removes the note with that id and keeps the others as they
\* were; when id was the selected note, the selection afterwards is the note
\* at index 0 of the stored array, or none when nothing remains.
C2_DeleteSelectsStoreFirst ==
  last.op = "delete" =>
    /\ ~Found(notes, last.id)
    /\ notes = Remaining(last.notes, last.id)
    /\ last.activeId = last.id =>
         activeId = (IF notes = <<>> THEN NULL ELSE notes[1].id)

C2_Witness ==
  /\ last.op = "delete"
  /\ last.activeId = last.id
  /\ Found(last.notes, last.id)
  /\ Len(notes) >= 2
  /\ activeId = notes[1].id

\* The note that display order puts after the deleted one: its follower in
\* the derived view, else the first remaining note the view shows, else (the
\* search hides every remaining note) any remaining note, else none.
DisplayNext(before, id, term) ==
  LET view == filteredNotes(before, term)
      k == IndexIn(view, id)
      rest == filteredNotes(Remaining(before, id), term)
  IN IF k > 0 /\ k < Len(view) THEN {view[k + 1].id}
     ELSE IF rest # <<>> THEN {rest[1].id}
     ELSE IF Remaining(before, id) # <<>> THEN NoteIds(Remaining(before, id))
     ELSE {NULL}

\* C3 as claimed: deleting the active note selects the next note in display
\* order.
C3_DeleteSelectsDisplayNext ==
  (last.op = "delete" /\ last.activeId = last.id /\ Found(last.notes, last.id)) =>
    activeId \in DisplayNext(last.notes, last.id, searchTerm)

\* C3 as amended: deleting the active note selects, of the notes that stay,
\* the one that stood earliest in the stored array before the delete,
\* whatever the pins, the timestamps and the search term; the selection is
\* none exactly when no note stays.
C3_DeleteSelectsEarliestStored ==
  (last.op = "delete" /\ last.activeId = last.id /\ Found(last.notes, last.id)) =>
    LET stay == {i \in 1..Len(last.notes) : last.notes[i].id # last.id} IN
    /\ (activeId = NULL) <=> (stay = {})
    /\ \A i \in stay : (\A j \in stay : i <= j) => activeId = last.notes[i].id

\* the selected note is not the one display order puts next
C3_Witness ==
  /\ last.op = "delete"
  /\ last.activeId = last.id
  /\ Found(last.notes, last.id)
  /\ Len(notes) >= 2
  /\ activeId \notin DisplayNext(last.notes, last.id, searchTerm)

\* a write is due: the effects of the first commit, or the persist effect of
\* a render with a new notes array, have not run yet
WritePending == pc # "run" \/ pending

NoteFields == {"id", "title", "content", "createdAt", "updatedAt", "pinned", "color"}

\* the text under the storage key is a JSON array that holds ns: as many
\* objects, in the same order, each with the seven fields of its note
Holds(raw, ns) ==
  /\ raw.kind = "json"
  /\ raw.val.tag = "array"
  /\ Len(raw.val.items) = Len(ns)
  /\ \A i \in 1..Len(ns) :
       /\ raw.val.items[i].tag = "object"
       /\ {raw.val.items[i].props[j][1] : j \in 1..Len(raw.val.items[i].props)} = NoteFields
       /\ \A f \in NoteFields : Prop(raw.val.items[i], f) = ns[i][f]

Mutated ==
  \/ last.op \in {"create", "update", "delete"}
  \/ last.op = "duplicate" /\ Found(last.notes, last.id)

\* C4: every create, update, duplicate and delete leaves a write of the
\* store due, and whenever no write is due the text under the storage key is
\* the whole current store, every note, in store order.
C4_PersistedIsStore ==
  /\ Mutated => pending
  /\ ~WritePending => Holds(storage, notes)

C4_Witness ==
  /\ last.op = "persist"
  /\ ~WritePending
  /\ Len(notes) >= 2
  /\ \E i \in 1..Len(notes) : notes[i].title # <<"a">>

\* what the startup load makes of a stored text
Loaded(raw) ==
  LET items == getInitialNotes(raw).items IN [i \in 1..Len(items) |-> DecodeNote(items[i])]

\* C5: serialising any reachable store and loading the text gives the same
\* store, field for field and in the same order; and the startup load of a
\* storage that holds a valid array A of notes makes the store A and selects
\* A's first note when there is one.
C5_RoundTrip ==
  /\ Loaded(JSONstringify(notes)) = notes
  /\ \A A \in StoredStores :
       (last.op = "load" /\ Holds(storage, A)) =>
         /\ notes = A
         /\ A # <<>> => activeId = A[1].id

C5_Witness ==
  /\ last.op = "load"
  /\ Len(notes) = 2
  /\ notes[1].createdAt # notes[1].updatedAt
  /\ activeId = notes[1].id

\* C6 as claimed: update never moves a note's updatedAt back, in the order
\* the view compares timestamps by.
C6_UpdateAdvancesUpdatedAt ==
  last.op = "update" =>
    \A i \in 1..Len(notes) :
      notes[i].id = last.id =>
        localeCompare(notes[i].updatedAt, last.notes[i].updatedAt) >= 0

\* C9: when the stored value is absent, empty, not JSON, or JSON that is no
\* array, the load ends with an empty store, nothing selected, and without
\* an exception escaping the effect.
Unusable(raw) ==
  \/ raw.kind \in {"absent", "empty", "garbage"}
  \/ raw.kind = "json" /\ raw.val.tag # "array"

C9_LoadDegradesToEmpty ==
  (last.op = "load" /\ Unusable(storage)) =>
    /\ notes = <<>>
    /\ activeId = NULL
    /\ pc = "mountPersist"

C9_Witness ==
  /\ last.op = "load"
  /\ storage.kind = "json"
  /\ storage.val.tag = "object"
  /\ storage.val.items # <<>>
  /\ notes = <<>>

PaletteSet == {palettes[i] : i \in 1..Len(palettes)}

\* what create() does apart from the title
CreatedRest ==
  /\ Len(notes) = Len(last.notes) + 1
  /\ Tail(notes) = last.notes
  /\ notes[1].content = <<>>
  /\ notes[1].createdAt = toISOString(now)
  /\ notes[1].updatedAt = toISOString(now)
  /\ notes[1].pinned = FALSE
  /\ notes[1].color \in PaletteSet
  /\ activeId = notes[1].id

\* C10 as claimed: the note create() adds has an empty title and an empty
\* content, both timestamps now, pinned false, a palette colour; the other
\* notes are unchanged and the new note is selected.
C10_CreateEmptyTitle ==
  last.op = "create" => (CreatedRest /\ notes[1].title = <<>>)

\* C10 as amended: the same, with the title "Untitled".
C10_CreateUntitled ==
  last.op = "create" => (CreatedRest /\ notes[1].title = Untitled)

C10_Witness ==
  /\ last.op = "create"
  /\ Len(last.notes) >= 1
  /\ now > 0
  /\ notes[1].color = palettes[4]

\* ------------------------------------------------------------ view claims
View == filteredNotes(notes, searchTerm)

\* C7: in the derived view every pinned note precedes every unpinned one,
\* and within each group the notes come in non-increasing updatedAt order.
C7_PinnedFirstThenNewest ==
  \A i, j \in 1..Len(View) :
    i < j =>
      /\ View[j].pinned => View[i].pinned
      /\ View[i].pinned = View[j].pinned =>
           localeCompare(View[i].updatedAt, View[j].updatedAt) >= 0

\* an unpinned note with a later timestamp is shown below a pinned one
C7_Witness ==
  /\ Len(View) = 3
  /\ View[1].pinned /\ ~View[2].pinned
  /\ localeCompare(View[2].updatedAt, View[1].updatedAt) > 0
  /\ View[1].id # notes[1].id
  /\ searchTerm # <<>>

\* s contains t as a substring when letter case is ignored
ContainsIgnoringCase(s, t) ==
  \E i \in 0..(Len(s) - Len(t)) :
    \A j \in 1..Len(t) : LowerChar(s[i + j]) = LowerChar(t[j])

MatchIds(term) ==
  {notes[i].id : i \in {k \in 1..Len(notes) :
      ContainsIgnoringCase(notes[k].title, term) \/ ContainsIgnoringCase(notes[k].content, term)}}

ShowsExactly(ids) == NoteIds(View) = ids /\ Len(View) = Cardinality(ids)

AllWhitespace(term) == \A i \in 1..Len(term) : IsWhitespace(term[i])

C11_Duplicate ==
  last.op = "duplicate" =>
    IF Found(last.notes, last.id)
    THEN LET orig == last.notes[IndexIn(last.notes, last.id)] IN
         /\ Len(notes) = Len(last.notes) + 1
         /\ Tail(notes) = last.notes
         /\ notes[1].id \notin NoteIds(last.notes)
         /\ notes[1].createdAt = toISOString(now)
         /\ notes[1].updatedAt = toISOString(now)
         /\ notes[1].title = orig.title \o <<" ", "(", "C", "o", "p", "y", ")">>
         /\ notes[1].content = orig.content
         /\ notes[1].pinned = orig.pinned
         /\ notes[1].color = orig.color
         /\ activeId = notes[1].id
    ELSE /\ notes = last.notes
         /\ activeId = last.activeId
         /\ ~pending
         /\ Holds(storage, notes)

\* a pinned note, last updated at another time than now, has been copied
C11_Witness ==
  /\ last.op = "duplicate"
  /\ Found(last.notes, last.id)
  /\ notes[1].pinned
  /\ notes[2].updatedAt # toISOString(now)
  /\ notes[2].id = last.id

\* C12: update(id, fields) with an id that is not stored changes no note, nor
\* their number or order, nor the selection; the stored text still holds the
\* same store, and so it does after the write the call leaves due.
C12_UpdateAbsentIsNoOp ==
  /\ (last.op = "update" /\ ~Found(last.notes, last.id)) =>
       /\ notes = last.notes
       /\ activeId = last.activeId
       /\ Holds(storage, last.notes)
  /\ last.op = "persist" =>
       /\ notes = last.notes
       /\ Holds(storage, last.notes)

\* the absent id is updated while a note with another timestamp is stored
C12_Witness ==
  /\ last.op = "update"
  /\ ~Found(last.notes, last.id)
  /\ Len(notes) >= 1
  /\ notes[1].updatedAt # toISOString(now)
  /\ "title" \in DOMAIN last.payload

\* C13: a select changes the active-note pointer and nothing else, a change
\* of the search term the term and nothing else: the store and the stored
\* text stay as they are and no write is left due.
C13_SelectAndSearchFrame ==
  [][ /\ last'.op = "select" =>
           /\ UNCHANGED <<notes, searchTerm, storage, pending, pc>>
           /\ ~pending'
           /\ activeId' = last'.id
      /\ last'.op = "search" =>
           /\ UNCHANGED <<notes, activeId, storage, pending, pc>>
           /\ ~pending' ]_vars

C13_Witness ==
  /\ last.op = "select"
  /\ activeId # last.activeId
  /\ Len(notes) >= 2
  /\ searchTerm # <<>>

\* the store the stored text stands for (none of it when it is unusable)
PersistedStore == Loaded(storage)

MutatedOrLoaded == Mutated \/ last.op = "load"

\* C14 as claimed: at every moment the stored array is the current store or
\* the store as it was before the most recent change of it, the array found
\* at startup counting as the store before the load.
C14_AtMostOneWriteLost ==
  \/ pc \in {"mount", "crashed"}
  \/ PersistedStore = notes
  \/ MutatedOrLoaded /\ PersistedStore = last.notes

\* C15: the store is in insertion order, newest first (ids are issued in
\* increasing order): create and duplicate put the new note at the front,
\* update and delete keep the remaining notes in their order, and the steps
\* that only re-render the list (select) leave the store as it is.
IdsOf(ns) == [i \in 1..Len(ns) |-> ns[i].id]

C15_InsertionOrder ==
  /\ \A i, j \in 1..Len(notes) : i < j => notes[i].id > notes[j].id
  /\ (last.op = "create" \/ (last.op = "duplicate" /\ Found(last.notes, last.id))) =>
       /\ Tail(notes) = last.notes
       /\ \A i \in 1..Len(last.notes) : notes[1].id > last.notes[i].id
  /\ last.op = "update" => IdsOf(notes) = IdsOf(last.notes)
  /\ last.op = "delete" => IdsOf(notes) = IdsOf(Remaining(last.notes, last.id))
  /\ last.op = "select" => notes = last.notes

\* the middle one of three notes is deleted while the list shows the two
\* that stay in the other order
C15_Witness ==
  /\ last.op = "delete"
  /\ Len(last.notes) = 3
  /\ last.notes[2].id = last.id
  /\ Len(notes) = 2
  /\ IdsOf(filteredNotes(notes, searchTerm)) # IdsOf(notes)

\* C16: update(id, fields) on a stored note sets the supplied fields and
\* updatedAt of that note and nothing else: its id and createdAt, its other
\* fields, every other note, the number and order of the notes and the
\* selection are as before.
C16_UpdateFrame ==
  (last.op = "update" /\ Found(last.notes, last.id)) =>
    /\ Len(notes) = Len(last.notes)
    /\ activeId = last.activeId
    /\ \A i \in 1..Len(last.notes) :
         IF last.notes[i].id = last.id
         THEN /\ notes[i].updatedAt = toISOString(now)
              /\ \A f \in NoteFields \ {"updatedAt"} :
                   notes[i][f] = (IF f \in DOMAIN last.payload THEN last.payload[f]
                                  ELSE last.notes[i][f])
              /\ notes[i].id = last.notes[i].id
              /\ notes[i].createdAt = last.notes[i].createdAt
         ELSE notes[i] = last.notes[i]

\* a note created earlier gets a new content while another note is selected
C16_Witness ==
  /\ last.op = "update"
  /\ "content" \in DOMAIN last.payload
  /\ Len(notes) = 2
  /\ notes[2].id = last.id
  /\ notes[2].content # last.notes[2].content
  /\ notes[2].createdAt # toISOString(now)
  /\ activeId = notes[1].id

\* C17: the active-note pointer is none or the id of a stored note, and a
\* delete of a note that is not selected leaves it as it was.
C17_SelectionNeverDangles ==
  /\ activeId = NULL \/ Found(notes, activeId)
  /\ (last.op = "delete" /\ last.activeId # last.id) => activeId = last.activeId

\* the selected one of two notes has been deleted, the other one is selected
C17_Witness ==
  /\ last.op = "delete"
  /\ last.activeId = last.id
  /\ Len(last.notes) = 2
  /\ activeId # NULL
  /\ Found(notes, activeId)

====
